---- MODULE Spec2Model ----
(***************************************************************************)
(* State-machine model of the SchoolVoting contract                        *)
(* (src/school-voting/contracts/schoolvoting.sol).                         *)
(*                                                                         *)
(* One contract instance is deployed in Init (the constructor); every      *)
(* external function is one action.  A call that reverts leaves the        *)
(* contract storage and the event log exactly as they were (EVM revert     *)
(* semantics); the revert string of the failing require is recorded in     *)
(* lastCall.result, "ok" when the call succeeds.                           *)
(***************************************************************************)
EXTENDS Integers, Sequences, FiniteSets, TLC

(* ------------------------------ bounds --------------------------------- *)

\* maxVoters is drawn from 1..MaxVotersBound at deployment
MaxVotersBound == 2

(* ------------------------- program constants --------------------------- *)

\* "1 hours" in Solidity is 3600 seconds
HOUR == 3600

(* ------------------------------ inputs --------------------------------- *)

Deployer == "owner"
Addrs == {"owner", "voter1", "voter2"}
\* address(0), returned by ecrecover on a malformed signature
ZeroAddress == "0x0"
\* the address ecrecover yields when the signature does not fit the digest
UnrelatedAddress == "0xunrelated"
\* address(this) of the deployed election, and the address of another one
ThisContract == "election"
OtherContract == "otherElection"

CandidateNameLists == { <<"Alice", "Bob">> }
NameInputs == {"Alice", "Bob", "NonExistent"}
\* candidate indices passed to vote / voteBySignature; 2 is out of range
IndexInputs == {0, 1, 2}
\* nonces passed to voteBySignature
NonceInputs == {0, 1}
DurationChoices == {24}

VARIABLES
    owner,              \* address public owner
    candidates,         \* Candidate[] : sequence of [name, voteCount] (index i is candidates[i+1])
    hasVoted,           \* mapping(address => bool)
    nonces,             \* mapping(address => uint256)
    voterCount,         \* uint256
    maxVoters,          \* uint256
    electionStartTime,  \* uint256
    electionEndTime,    \* uint256
    electionEnded,      \* bool
    voteCastLog,        \* the VoteCast events emitted so far
    now,                \* block.timestamp of the current block
    lastCall            \* the last external call and its outcome

storage == <<owner, candidates, hasVoted, nonces, voterCount, maxVoters,
             electionStartTime, electionEndTime, electionEnded>>
\* the React application (src/unnamed/part_005): the election on screen with
\* its ledger, this session's vote status, Date.now(), what the last handler
\* returned, and (a history variable) the ledger the handlers would hold had
\* the stored data never been edited outside the application, with the
\* number of such edits
VARIABLES currentElection, userVoteStatus, dateNow, lastResult, written, edits
\* the application open in several tabs of one browser: each tab's React
\* state and pending callbacks, the browser's localStorage, and (a history
\* variable) the number of addVote calls that have returned success
VARIABLES tabs, localStorage, recorded

ui == <<currentElection, userVoteStatus, dateNow, lastResult, written, edits,
        tabs, localStorage, recorded>>

vars == <<owner, candidates, hasVoted, nonces, voterCount, maxVoters,
          electionStartTime, electionEndTime, electionEnded, voteCastLog, now, lastCall,
          currentElection, userVoteStatus, dateNow, lastResult, written, edits,
          tabs, localStorage, recorded>>

(* --------------------------- signatures -------------------------------- *)

\* keccak256(abi.encodePacked(address(this), voter, candidateIndex, nonce)):
\* a collision-free hash is the tuple of what was packed
MessageHash(contract, voter, candidateIndex, nonce) ==
    <<contract, voter, candidateIndex, nonce>>

\* _prefixed: keccak256 of the eth_sign prefix followed by the 32-byte hash
_prefixed(hash) == <<"Ethereum Signed Message: 32", hash>>

\* A signature (r,s,v) is described by who made it, over which digest, the
\* recovery id the signer produced (27 or 28), the v byte actually sent and
\* the byte length of the blob.
Signature(signer, digest, recid, v, len) ==
    [signer |-> signer, digest |-> digest, recid |-> recid, v |-> v, len |-> len]

\* ecrecover: the signer when (v,r,s) is the signature of this digest,
\* another address when it is a well-formed signature of something else
ecrecover(digest, v, sig) ==
    IF sig.signer = ZeroAddress THEN ZeroAddress
    ELSE IF sig.digest = digest /\ sig.recid = v THEN sig.signer
    ELSE UnrelatedAddress

\* _recover: the recovered address, or the revert string
_recover(digest, sig) ==
    IF sig.len # 65 THEN [err |-> "Invalid sig length", signer |-> ZeroAddress]
    ELSE LET v == IF sig.v < 27 THEN sig.v + 27 ELSE sig.v IN
         IF ~(v = 27 \/ v = 28) THEN [err |-> "Invalid v", signer |-> ZeroAddress]
         ELSE LET signer == ecrecover(digest, v, sig) IN
              IF signer = ZeroAddress THEN [err |-> "Invalid signer", signer |-> ZeroAddress]
              ELSE [err |-> "ok", signer |-> signer]

\* The signatures a relayer may submit along with (candidateIndex, voter, nonce):
\* the one the voter made over exactly this request, and the one the relayer
\* made itself (genuine only when the relayer is the voter).
SignatureInputs(candidateIndex, voter, nonce) ==
    LET d == _prefixed(MessageHash(ThisContract, voter, candidateIndex, nonce)) IN
    { Signature(voter, d, 27, 27, 65),
      Signature(Deployer, d, 27, 27, 65) }

(* ----------------------------- helpers --------------------------------- *)

\* what is remembered of a call: the function, msg.sender, the identity the
\* vote is for, the candidate index (the resolved one for voteByName), the
\* candidate name, and "ok" or the revert string
Call(fn, sender, voter, candidateIndex, name, result) ==
    [fn |-> fn, sender |-> sender, voter |-> voter, candidateIndex |-> candidateIndex,
     name |-> name, result |-> result]

NoCall == Call("none", ZeroAddress, ZeroAddress, 0, "", "ok")

\* variant of onlyOwner: the sender is not compared with owner
onlyOwner_anyone(sender) ==
    "ok"

\* modifier onlyOwner
onlyOwner(sender) ==
    IF sender # owner THEN "Only owner" ELSE "ok"

\* variant of onlyDuringElection: the scheduled end is not looked at
onlyDuringElection_noExpiry ==
    IF electionEnded THEN "Election has ended"
    ELSE IF ~(now >= electionStartTime) THEN "Election not started"
    ELSE "ok"

\* variant of onlyDuringElection: the electionEnded flag is not examined
onlyDuringElection_noEndedFlag ==
    IF ~(now >= electionStartTime) THEN "Election not started"
    ELSE IF ~(now <= electionEndTime) THEN "Election time expired"
    ELSE "ok"

\* modifier onlyDuringElection
onlyDuringElection ==
    IF electionEnded THEN "Election has ended"
    ELSE IF ~(now >= electionStartTime) THEN "Election not started"
    ELSE IF ~(now <= electionEndTime) THEN "Election time expired"
    ELSE "ok"

\* variant of getCandidateIndexByName: the position counted from one
getCandidateIndexByName_fromOne(candidateName) ==
    LET hits == { i \in 1..Len(candidates) : candidates[i].name = candidateName } IN
    IF hits = {} THEN <<0, FALSE>>
    ELSE <<CHOOSE i \in hits : \A j \in hits : i <= j, TRUE>>

\* getCandidateIndexByName: (index, found) of the first candidate with that name
getCandidateIndexByName(candidateName) ==
    LET hits == { i \in 1..Len(candidates) : candidates[i].name = candidateName } IN
    IF hits = {} THEN <<0, FALSE>>
    ELSE <<(CHOOSE i \in hits : \A j \in hits : i <= j) - 1, TRUE>>

\* variant of the requires of _castVote: no capacity check
_castVoteRequires_noCapacity(candidateIndex, voter) ==
    IF hasVoted[voter] THEN "Already voted"
    ELSE IF ~(candidateIndex < Len(candidates)) THEN "Candidate out of range"
    ELSE "ok"

\* variant of the requires of _castVote: capacity is checked before the candidate index
_castVoteRequires_capacityFirst(candidateIndex, voter) ==
    IF hasVoted[voter] THEN "Already voted"
    ELSE IF ~(voterCount < maxVoters) THEN "Max voters reached"
    ELSE IF ~(candidateIndex < Len(candidates)) THEN "Candidate out of range"
    ELSE "ok"

\* the three requires of _castVote, in order
_castVoteRequires(candidateIndex, voter) ==
    IF hasVoted[voter] THEN "Already voted"
    ELSE IF ~(candidateIndex < Len(candidates)) THEN "Candidate out of range"
    ELSE IF ~(voterCount < maxVoters) THEN "Max voters reached"
    ELSE "ok"

\* variant of the writes of _castVote: voterCount is not incremented
_castVoteWrites_noVoterCount(candidateIndex, voter) ==
    /\ hasVoted' = [hasVoted EXCEPT ![voter] = TRUE]
    /\ voterCount' = voterCount
    /\ candidates' = [candidates EXCEPT ![candidateIndex + 1].voteCount = @ + 1]
    /\ voteCastLog' = Append(voteCastLog,
                             [voter |-> voter, candidateIndex |-> candidateIndex, timestamp |-> now])

\* variant of the writes of _castVote: the first candidate is credited, whichever was chosen
_castVoteWrites_firstCandidate(candidateIndex, voter) ==
    /\ hasVoted' = [hasVoted EXCEPT ![voter] = TRUE]
    /\ voterCount' = voterCount + 1
    /\ candidates' = [candidates EXCEPT ![1].voteCount = @ + 1]
    /\ voteCastLog' = Append(voteCastLog,
                             [voter |-> voter, candidateIndex |-> candidateIndex, timestamp |-> now])

\* the writes of _castVote and its VoteCast event
_castVoteWrites(candidateIndex, voter) ==
    /\ hasVoted' = [hasVoted EXCEPT ![voter] = TRUE]
    /\ voterCount' = voterCount + 1
    /\ candidates' = [candidates EXCEPT ![candidateIndex + 1].voteCount = @ + 1]
    /\ voteCastLog' = Append(voteCastLog,
                             [voter |-> voter, candidateIndex |-> candidateIndex, timestamp |-> now])

\* variant of the requires of voteBySignature: a nonce at or above the stored one passes
voteBySignatureRequires_nonceAtLeast(candidateIndex, voter, nonce, sig) ==
    IF ~(candidateIndex < Len(candidates)) THEN "Invalid candidate"
    ELSE IF hasVoted[voter] THEN "Voter already voted"
    ELSE IF ~(voterCount < maxVoters) THEN "Max voters reached"
    ELSE IF nonces[voter] > nonce THEN "Invalid nonce"
    ELSE LET rec == _recover(_prefixed(MessageHash(ThisContract, voter, candidateIndex, nonce)), sig) IN
         IF rec.err # "ok" THEN rec.err
         ELSE IF rec.signer # voter THEN "Invalid signature"
         ELSE "ok"

\* variant of the requires of voteBySignature: hasVoted is not examined
voteBySignatureRequires_noVotedCheck(candidateIndex, voter, nonce, sig) ==
    IF ~(candidateIndex < Len(candidates)) THEN "Invalid candidate"
    ELSE IF ~(voterCount < maxVoters) THEN "Max voters reached"
    ELSE IF nonces[voter] # nonce THEN "Invalid nonce"
    ELSE LET rec == _recover(_prefixed(MessageHash(ThisContract, voter, candidateIndex, nonce)), sig) IN
         IF rec.err # "ok" THEN rec.err
         ELSE IF rec.signer # voter THEN "Invalid signature"
         ELSE "ok"

\* the requires of voteBySignature that precede _castVote, in order
voteBySignatureRequires(candidateIndex, voter, nonce, sig) ==
    IF ~(candidateIndex < Len(candidates)) THEN "Invalid candidate"
    ELSE IF hasVoted[voter] THEN "Voter already voted"
    ELSE IF ~(voterCount < maxVoters) THEN "Max voters reached"
    ELSE IF nonces[voter] # nonce THEN "Invalid nonce"
    ELSE LET rec == _recover(_prefixed(MessageHash(ThisContract, voter, candidateIndex, nonce)), sig) IN
         IF rec.err # "ok" THEN rec.err
         ELSE IF rec.signer # voter THEN "Invalid signature"
         ELSE "ok"

\* variant of the requires of endElection: no check of the scheduled end
endElectionRequires_anytime ==
    IF electionEnded THEN "Already ended"
    ELSE "ok"

\* variant of the requires of endElection: the end time itself is still "running"
endElectionRequires_strictlyAfter ==
    IF electionEnded THEN "Already ended"
    ELSE IF ~(now > electionEndTime) THEN "Election still running"
    ELSE "ok"

\* the requires of endElection after onlyOwner, in order
endElectionRequires ==
    IF electionEnded THEN "Already ended"
    ELSE IF ~(now >= electionEndTime) THEN "Election still running"
    ELSE "ok"

(* --------------------------- view functions ---------------------------- *)

\* variant of the require of getWinner: only the explicit flag opens the result
getWinnerRequires_flagOnly ==
    IF ~electionEnded THEN "Election ongoing" ELSE "ok"

\* the require of getWinner
getWinnerRequires ==
    IF ~(electionEnded \/ now > electionEndTime) THEN "Election ongoing" ELSE "ok"

\* variant of the loop of getWinner: an equal count takes over the lead
RECURSIVE getWinnerLoop_lastWins(_, _, _, _, _)
getWinnerLoop_lastWins(cs, i, maxVotes, winners, winnerIdx) ==
    IF ~(i < Len(cs)) THEN [maxVotes |-> maxVotes, winners |-> winners, winnerIdx |-> winnerIdx]
    ELSE LET v == cs[i + 1].voteCount IN
         IF v > maxVotes THEN getWinnerLoop_lastWins(cs, i + 1, v, 1, i)
         ELSE IF v = maxVotes /\ v > 0 THEN getWinnerLoop_lastWins(cs, i + 1, maxVotes, winners + 1, i)
         ELSE getWinnerLoop_lastWins(cs, i + 1, maxVotes, winners, winnerIdx)

\* the loop of getWinner from index i on, with the running maxVotes, winners, winnerIdx
RECURSIVE getWinnerLoop(_, _, _, _, _)
getWinnerLoop(cs, i, maxVotes, winners, winnerIdx) ==
    IF ~(i < Len(cs)) THEN [maxVotes |-> maxVotes, winners |-> winners, winnerIdx |-> winnerIdx]
    ELSE LET v == cs[i + 1].voteCount IN
         IF v > maxVotes THEN getWinnerLoop(cs, i + 1, v, 1, i)
         ELSE IF v = maxVotes /\ v > 0 THEN getWinnerLoop(cs, i + 1, maxVotes, winners + 1, winnerIdx)
         ELSE getWinnerLoop(cs, i + 1, maxVotes, winners, winnerIdx)

\* what getWinner returns for the candidate array cs once its require has passed
getWinnerReturn(cs) ==
    IF Len(cs) = 0
    THEN [err |-> "ok", winnerName |-> "", winnerVotes |-> 0, tie |-> FALSE]
    ELSE LET r == getWinnerLoop(cs, 0, 0, 0, 0) IN
         IF r.maxVotes = 0
         THEN [err |-> "ok", winnerName |-> "", winnerVotes |-> 0, tie |-> FALSE]
         ELSE [err |-> "ok", winnerName |-> cs[r.winnerIdx + 1].name,
               winnerVotes |-> r.maxVotes, tie |-> r.winners > 1]

\* function getWinner() external view: the revert string or "ok", and the
\* returned (winnerName, winnerVotes, tie)
getWinner ==
    IF getWinnerRequires # "ok"
    THEN [err |-> getWinnerRequires, winnerName |-> "", winnerVotes |-> 0, tie |-> FALSE]
    ELSE getWinnerReturn(candidates)

\* variant of getElectionStats: isActive looks at the flag only
getElectionStats_flagOnly ==
    [totalVoters |-> voterCount,
     maxAllowedVoters |-> maxVoters,
     remainingVoters |-> IF maxVoters > voterCount THEN maxVoters - voterCount ELSE 0,
     isActive |-> ~electionEnded,
     timeRemaining |-> IF now < electionEndTime THEN electionEndTime - now ELSE 0]

\* function getElectionStats() external view (no require: it cannot revert)
getElectionStats ==
    [totalVoters |-> voterCount,
     maxAllowedVoters |-> maxVoters,
     remainingVoters |-> IF maxVoters > voterCount THEN maxVoters - voterCount ELSE 0,
     isActive |-> ~electionEnded /\ now >= electionStartTime /\ now <= electionEndTime,
     timeRemaining |-> IF now < electionEndTime THEN electionEndTime - now ELSE 0]

(* ------------------- the application's ledger (part_005) --------------- *)

\* what a handler returned
Result(fn, success, message) == [fn |-> fn, success |-> success, message |-> message]

\* the application is not open: no election on screen
NoApp ==
    /\ currentElection = [election |-> [status |-> "", endTime |-> 0, candidates |-> <<>>],
                          blockchain |-> <<>>, contractAddress |-> ""]
    /\ userVoteStatus = [hasVoted |-> FALSE, votedCandidate |-> ""]
    /\ dateNow = 0
    /\ lastResult = Result("none", TRUE, "")
    /\ written = <<>>
    /\ edits = 0
    /\ tabs = <<>>
    /\ localStorage = [elections |-> <<>>, voteStatus |-> FALSE]
    /\ recorded = 0

\* String.prototype.charCodeAt over the strings the ledger holds
charCodes(str) ==
    CASE str = "Alice" -> <<65, 108, 105, 99, 101>>
      [] str = "Bob" -> <<66, 111, 98>>
      [] str = "ANONYMOUS" -> <<65, 78, 79, 78, 89, 77, 79, 85, 83>>
      [] str = "0" -> <<48>>
      [] str = "[" -> <<91>>
      [] str = "]" -> <<93>>
      [] str = "," -> <<44>>
      [] str = "{\"voterId\":\"" -> <<123, 34, 118, 111, 116, 101, 114, 73, 100, 34, 58, 34>>
      [] str = "\",\"candidate\":\"" -> <<34, 44, 34, 99, 97, 110, 100, 105, 100, 97, 116, 101, 34, 58, 34>>
      [] str = "\",\"timestamp\":" -> <<34, 44, 34, 116, 105, 109, 101, 115, 116, 97, 109, 112, 34, 58>>
      [] str = "}" -> <<125>>

\* Number.prototype.toString(): the decimal digits of a non-negative integer
RECURSIVE toString10(_)
toString10(n) ==
    IF n < 10 THEN <<48 + n>> ELSE toString10(n \div 10) \o <<48 + (n % 10)>>

\* JSON.stringify of one Vote: keys in insertion order voterId, candidate, timestamp
stringifyVote(v) ==
    charCodes("{\"voterId\":\"") \o charCodes(v.voterId)
    \o charCodes("\",\"candidate\":\"") \o charCodes(v.candidate)
    \o charCodes("\",\"timestamp\":") \o toString10(v.timestamp) \o charCodes("}")

RECURSIVE stringifyVotesFrom(_, _)
stringifyVotesFrom(votes, k) ==
    IF k > Len(votes) THEN <<>>
    ELSE (IF k > 1 THEN charCodes(",") ELSE <<>>) \o stringifyVote(votes[k])
         \o stringifyVotesFrom(votes, k + 1)

\* JSON.stringify(block.votes)
JSONstringify(votes) ==
    charCodes("[") \o stringifyVotesFrom(votes, 1) \o charCodes("]")

\* one step of the hash loop on a 32-bit integer held as two 16-bit halves:
\* hash = (hash << 5) - hash + char, then hash & hash (the value modulo 2^32)
hashStep(h, char) ==
    LET lo == h.lo * 31 + char IN
    [hi |-> (h.hi * 31 + (lo \div 65536)) % 65536, lo |-> lo % 65536]

\* the for loop over data[from..to] (1-based), started with hash = h; the
\* characters are taken left to right, the range being split in two and the
\* hash of the left part being computed before the right part is entered, so
\* that the evaluation does not nest once per character
RECURSIVE hashLoop(_, _, _, _)
hashLoop(data, from, to, h) ==
    IF from > to THEN h
    ELSE IF from = to THEN hashStep(h, data[from])
    ELSE LET mid == (from + to) \div 2
             left == hashLoop(data, from, mid, h) IN
         IF left.lo >= 0 THEN hashLoop(data, mid + 1, to, left) ELSE left

\* Math.abs of the signed 32-bit integer with these halves
MathAbs(h) ==
    IF h.hi < 32768 THEN h
    ELSE IF h.lo = 0 THEN [hi |-> (65536 - h.hi) % 65536, lo |-> 0]
    ELSE [hi |-> 65535 - h.hi, lo |-> 65536 - h.lo]

hexDigit(d) == IF d < 10 THEN 48 + d ELSE 87 + d

hex4(x) ==
    <<hexDigit(x \div 4096), hexDigit((x \div 256) % 16), hexDigit((x \div 16) % 16), hexDigit(x % 16)>>

RECURSIVE stripLeadingZeros(_)
stripLeadingZeros(digits) ==
    IF Len(digits) > 1 /\ digits[1] = 48 THEN stripLeadingZeros(Tail(digits)) ELSE digits

\* Number.prototype.toString(16) of a non-negative integer below 2^32
toString16(h) == stripLeadingZeros(hex4(h.hi) \o hex4(h.lo))

\* String.prototype.padStart
padStart(str, targetLength, padCode) ==
    IF Len(str) >= targetLength THEN str
    ELSE [i \in 1..(targetLength - Len(str)) |-> padCode] \o str

\* variant of calculateHash: the votes are left out of the hashed data
calculateHash_noVotes(block) ==
    LET data == toString10(block.index + block.timestamp)
                \o block.previousHash \o toString10(block.nonce) IN
    padStart(toString16(MathAbs(hashLoop(data, 1, Len(data), [hi |-> 0, lo |-> 0]))), 16, 48)

\* calculateHash: block.index + block.timestamp is a sum of two numbers, the
\* rest is string concatenation
calculateHash(block) ==
    LET data == toString10(block.index + block.timestamp) \o JSONstringify(block.votes)
                \o block.previousHash \o toString10(block.nonce) IN
    padStart(toString16(MathAbs(hashLoop(data, 1, Len(data), [hi |-> 0, lo |-> 0]))), 16, 48)

\* String.prototype.startsWith
startsWith(str, target) ==
    Len(str) >= Len(target) /\ SubSeq(str, 1, Len(target)) = target

\* the do-while loop of mineBlock
RECURSIVE mineLoop(_, _, _, _)
mineLoop(block, target, nonce, iterations) ==
    LET nonce1 == nonce + 1
        iterations1 == iterations + 1
        hash == calculateHash([block EXCEPT !.nonce = nonce1]) IN
    IF ~startsWith(hash, target) /\ iterations1 < 10000
       THEN mineLoop(block, target, nonce1, iterations1)
       ELSE [block EXCEPT !.nonce = nonce1, !.hash = hash]

\* mineBlock(block, difficulty = 2)
mineBlock(block) == mineLoop(block, <<48, 48>>, 0, 0)

\* a Block; hash and previousHash are strings held as char codes, blockType
\* is "" when the field is absent
Block(index, timestamp, votes, previousHash, hash, nonce, blockType) ==
    [index |-> index, timestamp |-> timestamp, votes |-> votes, previousHash |-> previousHash,
     hash |-> hash, nonce |-> nonce, blockType |-> blockType]

\* createGenesisBlock at Date.now() = t; the genesis block of a deployed
\* election differs in blockType only
createGenesisBlock(t, blockType) ==
    LET genesisBlock == Block(0, t, <<>>, charCodes("0"), <<>>, 0, blockType) IN
    [genesisBlock EXCEPT !.hash = calculateHash(genesisBlock)]

\* const blockchain = useMemo(...): the stored chain, or a fresh genesis block
blockchain ==
    IF Len(currentElection.blockchain) > 0 THEN currentElection.blockchain
    ELSE <<createGenesisBlock(dateNow, "")>>

\* variant of isChainValid: a block's link to its predecessor is not compared
isChainValid_noLink ==
    IF Len(blockchain) <= 1 THEN TRUE
    ELSE \A i \in 1..(Len(blockchain) - 1) :
            blockchain[i + 1].hash = calculateHash(blockchain[i + 1])

\* isChainValid: the loop starts at index 1
isChainValid ==
    IF Len(blockchain) <= 1 THEN TRUE
    ELSE \A i \in 1..(Len(blockchain) - 1) :
            /\ blockchain[i + 1].hash = calculateHash(blockchain[i + 1])
            /\ blockchain[i + 1].previousHash = blockchain[i].hash

(* ------------------------------ Init ----------------------------------- *)

\* constructor(candidateNames, _maxVoters, durationHours), deployed at block time 0
Init ==
    \E names \in CandidateNameLists, mv \in 1..MaxVotersBound, durationHours \in DurationChoices :
        /\ owner = Deployer
        /\ maxVoters = mv
        /\ now = 0
        /\ electionStartTime = 0
        /\ electionEndTime = 0 + durationHours * HOUR
        /\ candidates = [i \in 1..Len(names) |-> [name |-> names[i], voteCount |-> 0]]
        /\ hasVoted = [a \in Addrs |-> FALSE]
        /\ nonces = [a \in Addrs |-> 0]
        /\ voterCount = 0
        /\ electionEnded = FALSE
        /\ voteCastLog = <<>>
        /\ lastCall = NoCall
        /\ NoApp

(* ----------------------------- actions --------------------------------- *)

\* the block timestamps at which later calls are made: around the scheduled end
TimePoints == {electionEndTime, electionEndTime + 1}

\* a later block: block.timestamp never decreases
NextBlock ==
    \E t \in TimePoints :
        /\ t > now
        /\ now' = t
        /\ lastCall' = NoCall
        /\ UNCHANGED <<storage, voteCastLog>>
        /\ UNCHANGED ui

\* function vote(uint256 candidateIndex) external onlyDuringElection
vote(sender, candidateIndex) ==
    LET result == IF onlyDuringElection # "ok" THEN onlyDuringElection
                  ELSE _castVoteRequires(candidateIndex, sender) IN
    /\ IF result = "ok"
          THEN _castVoteWrites(candidateIndex, sender)
          ELSE UNCHANGED <<hasVoted, voterCount, candidates, voteCastLog>>
    /\ lastCall' = Call("vote", sender, sender, candidateIndex, "", result)
    /\ UNCHANGED <<owner, nonces, maxVoters, electionStartTime, electionEndTime, electionEnded, now>>
    /\ UNCHANGED ui

\* function voteByName(string candidateName) external onlyDuringElection
voteByName(sender, candidateName) ==
    LET found == getCandidateIndexByName(candidateName)
        result == IF onlyDuringElection # "ok" THEN onlyDuringElection
                  ELSE IF ~found[2] THEN "Candidate not found"
                  ELSE _castVoteRequires(found[1], sender) IN
    /\ IF result = "ok"
          THEN _castVoteWrites(found[1], sender)
          ELSE UNCHANGED <<hasVoted, voterCount, candidates, voteCastLog>>
    /\ lastCall' = Call("voteByName", sender, sender, found[1], candidateName, result)
    /\ UNCHANGED <<owner, nonces, maxVoters, electionStartTime, electionEndTime, electionEnded, now>>
    /\ UNCHANGED ui

\* variant of voteBySignature: the nonce is not consumed
voteBySignature_keepNonce(sender, candidateIndex, voter, nonce, sig) ==
    LET pre == IF onlyDuringElection # "ok" THEN onlyDuringElection
               ELSE voteBySignatureRequires(candidateIndex, voter, nonce, sig)
        result == IF pre # "ok" THEN pre ELSE _castVoteRequires(candidateIndex, voter) IN
    /\ IF result = "ok"
          THEN /\ nonces' = nonces
               /\ _castVoteWrites(candidateIndex, voter)
          ELSE UNCHANGED <<nonces, hasVoted, voterCount, candidates, voteCastLog>>
    /\ lastCall' = Call("voteBySignature", sender, voter, candidateIndex, "", result)
    /\ UNCHANGED <<owner, maxVoters, electionStartTime, electionEndTime, electionEnded, now>>
    /\ UNCHANGED ui

\* function voteBySignature(candidateIndex, voter, nonce, signature) external onlyDuringElection
voteBySignature(sender, candidateIndex, voter, nonce, sig) ==
    LET pre == IF onlyDuringElection # "ok" THEN onlyDuringElection
               ELSE voteBySignatureRequires(candidateIndex, voter, nonce, sig)
        \* _castVote runs on the storage as it is after the nonce was consumed;
        \* its requires do not read nonces
        result == IF pre # "ok" THEN pre ELSE _castVoteRequires(candidateIndex, voter) IN
    /\ IF result = "ok"
          THEN /\ nonces' = [nonces EXCEPT ![voter] = @ + 1]
               /\ _castVoteWrites(candidateIndex, voter)
          ELSE UNCHANGED <<nonces, hasVoted, voterCount, candidates, voteCastLog>>
    /\ lastCall' = Call("voteBySignature", sender, voter, candidateIndex, "", result)
    /\ UNCHANGED <<owner, maxVoters, electionStartTime, electionEndTime, electionEnded, now>>
    /\ UNCHANGED ui

\* function endElection() external onlyOwner
endElection(sender) ==
    LET result == IF onlyOwner(sender) # "ok" THEN onlyOwner(sender)
                  ELSE endElectionRequires IN
    /\ electionEnded' = IF result = "ok" THEN TRUE ELSE electionEnded
    /\ lastCall' = Call("endElection", sender, sender, 0, "", result)
    /\ UNCHANGED <<owner, candidates, hasVoted, nonces, voterCount, maxVoters,
                   electionStartTime, electionEndTime, voteCastLog, now>>
    /\ UNCHANGED ui

Next ==
    \/ NextBlock
    \/ \E sender \in Addrs, candidateIndex \in IndexInputs : vote(sender, candidateIndex)
    \/ \E sender \in Addrs, candidateName \in NameInputs : voteByName(sender, candidateName)
    \/ \E sender \in {Deployer}, candidateIndex \in IndexInputs, voter \in Addrs, nonce \in NonceInputs :
          \E sig \in SignatureInputs(candidateIndex, voter, nonce) :
              voteBySignature(sender, candidateIndex, voter, nonce, sig)
    \/ \E sender \in Addrs : endElection(sender)

Spec == Init /\ [][Next]_vars

(* ------------------------ relayed signed votes ------------------------- *)

\* what a holder of key `signer` can sign in place of the request
\* (candidateIndex, voter, nonce): the request itself, or a message that
\* differs from it in the contract, the voter, the candidate or the nonce,
\* or the bare hash without the eth_sign prefix
SignedDigests(candidateIndex, voter, nonce) ==
    { _prefixed(MessageHash(c, a, i, n)) :
        <<c, a, i, n>> \in
            {<<ThisContract, voter, candidateIndex, nonce>>}
            \cup { <<OtherContract, voter, candidateIndex, nonce>> }
            \cup { <<ThisContract, a2, candidateIndex, nonce>> : a2 \in Addrs }
            \cup { <<ThisContract, voter, i2, nonce>> : i2 \in IndexInputs }
            \cup { <<ThisContract, voter, candidateIndex, n2>> : n2 \in NonceInputs } }
    \cup { MessageHash(ThisContract, voter, candidateIndex, nonce) }

\* the signature blobs a relayer may submit with (candidateIndex, voter, nonce):
\* any of the digests above signed by the voter; the request signed by someone
\* else or by nobody (r, s of no key); the voter's signature with v sent as
\* 0/1 instead of 27/28, with the other recovery id, with an undefined v, or
\* cut to 64 bytes
SigVariants(candidateIndex, voter, nonce) ==
    LET d == _prefixed(MessageHash(ThisContract, voter, candidateIndex, nonce)) IN
    { Signature(voter, dd, 27, 27, 65) : dd \in SignedDigests(candidateIndex, voter, nonce) }
    \cup { Signature(a, d, 27, 27, 65) : a \in Addrs \cup {ZeroAddress} }
    \cup { Signature(voter, d, 27, 0, 65), Signature(voter, d, 28, 1, 65),
           Signature(voter, d, 28, 28, 65), Signature(voter, d, 27, 28, 65),
           Signature(voter, d, 27, 29, 65), Signature(voter, d, 27, 27, 64) }

NextSig ==
    \/ NextBlock
    \/ \E candidateIndex \in IndexInputs, voter \in Addrs, nonce \in NonceInputs :
          \E sig \in SigVariants(candidateIndex, voter, nonce) :
              voteBySignature(Deployer, candidateIndex, voter, nonce, sig)
    \/ \E sender \in Addrs : endElection(sender)

SpecSig == Init /\ [][NextSig]_vars

(* ---------------------- deployment and addCandidate -------------------- *)

\* constructor arguments: candidate name lists (too short, with equal names,
\* with names that differ in case only, valid), maxVoters and durationHours
DeployNameLists ==
    { <<>>, <<"Alice">>, <<"Alice", "Alice">>, <<"Alice", "alice">>, <<"Alice", "Bob">>,
      <<"Alice", "Bob", "Alice">>, <<"Alice", "Bob", "Charlie">> }
DeployMaxVoters == 0..MaxVotersBound
DeployDurations == {0, 24}
\* names passed to addCandidate: a registered one and a new one
AddNameInputs == {"Alice", "Dave"}

\* variant of the requires of the constructor: equal names are not looked for
constructorRequires_noDuplicateCheck(candidateNames, _maxVoters, durationHours) ==
    IF ~(Len(candidateNames) >= 2) THEN "At least two candidates"
    ELSE IF ~(_maxVoters > 0) THEN "maxVoters > 0"
    ELSE IF ~(durationHours > 0) THEN "duration > 0"
    ELSE "ok"

\* the requires of the constructor, in order: the three at its head, then the
\* one inside the loop that pushes the candidates
constructorRequires(candidateNames, _maxVoters, durationHours) ==
    IF ~(Len(candidateNames) >= 2) THEN "At least two candidates"
    ELSE IF ~(_maxVoters > 0) THEN "maxVoters > 0"
    ELSE IF ~(durationHours > 0) THEN "duration > 0"
    ELSE IF \E i \in 1..Len(candidateNames) : \E j \in 1..(i - 1) :
               candidateNames[i] = candidateNames[j]
         THEN "Duplicate candidate name"
    ELSE "ok"

\* no contract yet: every storage slot holds its zero value
InitDeploy ==
    /\ owner = ZeroAddress
    /\ maxVoters = 0
    /\ now = 0
    /\ electionStartTime = 0
    /\ electionEndTime = 0
    /\ candidates = <<>>
    /\ hasVoted = [a \in Addrs |-> FALSE]
    /\ nonces = [a \in Addrs |-> 0]
    /\ voterCount = 0
    /\ electionEnded = FALSE
    /\ voteCastLog = <<>>
    /\ lastCall = NoCall
    /\ NoApp

\* variant of the constructor: the election starts an hour after deployment
constructor_scheduledStart(sender, candidateNames, _maxVoters, durationHours) ==
    LET result == constructorRequires(candidateNames, _maxVoters, durationHours) IN
    /\ owner = ZeroAddress
    /\ IF result = "ok"
          THEN /\ owner' = sender
               /\ maxVoters' = _maxVoters
               /\ electionStartTime' = now + HOUR
               /\ electionEndTime' = now + HOUR + durationHours * HOUR
               /\ candidates' = [i \in 1..Len(candidateNames) |->
                                    [name |-> candidateNames[i], voteCount |-> 0]]
          ELSE UNCHANGED <<owner, maxVoters, electionStartTime, electionEndTime, candidates>>
    /\ lastCall' = Call("constructor", sender, sender, 0, "", result)
    /\ UNCHANGED <<hasVoted, nonces, voterCount, electionEnded, voteCastLog, now>>
    /\ UNCHANGED ui

\* the deployment transaction; a revert leaves no contract behind
constructor(sender, candidateNames, _maxVoters, durationHours) ==
    LET result == constructorRequires(candidateNames, _maxVoters, durationHours) IN
    /\ owner = ZeroAddress
    /\ IF result = "ok"
          THEN /\ owner' = sender
               /\ maxVoters' = _maxVoters
               /\ electionStartTime' = now
               /\ electionEndTime' = now + durationHours * HOUR
               /\ candidates' = [i \in 1..Len(candidateNames) |->
                                    [name |-> candidateNames[i], voteCount |-> 0]]
          ELSE UNCHANGED <<owner, maxVoters, electionStartTime, electionEndTime, candidates>>
    /\ lastCall' = Call("constructor", sender, sender, 0, "", result)
    /\ UNCHANGED <<hasVoted, nonces, voterCount, electionEnded, voteCastLog, now>>
    /\ UNCHANGED ui

\* variant of the requires of addCandidate: no check of the start time
addCandidateRequires_noTimeCheck(name) ==
    IF \E i \in 1..Len(candidates) : candidates[i].name = name THEN "Duplicate candidate"
    ELSE "ok"

\* the requires of addCandidate after onlyOwner, in order
addCandidateRequires(name) ==
    IF ~(now < electionStartTime) THEN "Can only add candidates before start"
    ELSE IF \E i \in 1..Len(candidates) : candidates[i].name = name THEN "Duplicate candidate"
    ELSE "ok"

\* function addCandidate(string name) external onlyOwner
addCandidate(sender, name) ==
    LET result == IF onlyOwner(sender) # "ok" THEN onlyOwner(sender)
                  ELSE addCandidateRequires(name) IN
    /\ owner # ZeroAddress
    /\ candidates' = IF result = "ok"
                        THEN Append(candidates, [name |-> name, voteCount |-> 0])
                        ELSE candidates
    /\ lastCall' = Call("addCandidate", sender, sender, 0, name, result)
    /\ UNCHANGED <<owner, hasVoted, nonces, voterCount, maxVoters,
                   electionStartTime, electionEndTime, electionEnded, voteCastLog, now>>
    /\ UNCHANGED ui

NextDeploy ==
    \/ NextBlock
    \/ \E sender \in Addrs, candidateNames \in DeployNameLists,
          _maxVoters \in DeployMaxVoters, durationHours \in DeployDurations :
          constructor(sender, candidateNames, _maxVoters, durationHours)
    \/ \E sender \in Addrs, name \in AddNameInputs : addCandidate(sender, name)

SpecDeploy == InitDeploy /\ [][NextDeploy]_vars

(* ------------------------ the application's election ------------------ *)

\* blocks in the ledger, genesis included
MaxChainLen == 3
\* Date.now() runs from 1 to MaxDateNow; the election's endTime
MaxDateNow == 3
UIEndTime == MaxDateNow - 1
\* edits of the stored elections made outside the application
MaxEdits == 1

UICandidates == <<"Alice", "Bob">>
UICandidateInputs == {"Alice", "Bob", "NonExistent"}
UIVoterIds == {"S-001", "S-002"}
\* contractAddress of the election: undefined (a local election) or deployed
UIContractAddresses == {"", "0xC"}
\* a hash string that no block has
FakeHash == <<48, 48, 48, 48, 48, 48, 48, 48, 100, 101, 97, 100, 98, 101, 101, 102>>

\* the state after handleCreateElection at Date.now() = 1
InitUI ==
    \E contractAddress \in UIContractAddresses :
        /\ owner = ZeroAddress
        /\ maxVoters = 0
        /\ now = 0
        /\ electionStartTime = 0
        /\ electionEndTime = 0
        /\ candidates = <<>>
        /\ hasVoted = [a \in Addrs |-> FALSE]
        /\ nonces = [a \in Addrs |-> 0]
        /\ voterCount = 0
        /\ electionEnded = FALSE
        /\ voteCastLog = <<>>
        /\ lastCall = NoCall
        /\ dateNow = 1
        /\ currentElection =
              [election |-> [status |-> "active", endTime |-> UIEndTime, candidates |-> UICandidates],
               blockchain |-> <<createGenesisBlock(1, IF contractAddress = "" THEN "" ELSE "deployment")>>,
               contractAddress |-> contractAddress]
        /\ userVoteStatus = [hasVoted |-> FALSE, votedCandidate |-> ""]
        /\ lastResult = Result("handleCreateElection", TRUE, "")
        /\ written = currentElection.blockchain
        /\ edits = 0
        /\ tabs = <<>>
        /\ localStorage = [elections |-> <<>>, voteStatus |-> FALSE]
        /\ recorded = 0

\* Date.now() advances
Tick ==
    /\ dateNow < MaxDateNow
    /\ dateNow' = dateNow + 1
    /\ UNCHANGED <<storage, voteCastLog, now, lastCall, currentElection, userVoteStatus, lastResult, written, edits,
                 tabs, localStorage, recorded>>

\* Array.prototype.includes
includes(seq, x) == \E i \in 1..Len(seq) : seq[i] = x

\* addVote(voterId, candidate); backendConnected is the connection state at the
\* call and apiOk whether api.vote resolves or throws
addVote(voterId, candidate, backendConnected, apiOk) ==
    LET chain == currentElection.blockchain
        newVote == [voterId |-> "ANONYMOUS", candidate |-> candidate, timestamp |-> dateNow]
        \* the block either path builds on top of lastBlock
        built(lastBlock) ==
            LET voteBlock == Block(lastBlock.index + 1, dateNow, <<newVote>>, lastBlock.hash, <<>>, 0, "vote")
                newBlock == Block(lastBlock.index + 1, dateNow, <<newVote>>, lastBlock.hash, <<>>, 0, "")
            IN  IF backendConnected /\ currentElection.contractAddress # ""
                   THEN [voteBlock EXCEPT !.hash = calculateHash(voteBlock)]
                   ELSE mineBlock(newBlock)
        appended == built(chain[Len(chain)])
        result ==
            IF currentElection.election.status = "closed" \/ dateNow > currentElection.election.endTime
               THEN Result("addVote", FALSE, "This election has ended. No more votes can be cast.")
            ELSE IF ~includes(currentElection.election.candidates, candidate)
               THEN Result("addVote", FALSE, "Invalid candidate selected!")
            ELSE IF backendConnected /\ currentElection.contractAddress # ""
               THEN IF apiOk
                       THEN Result("addVote", TRUE, "recorded successfully on the blockchain! Transaction")
                       ELSE Result("addVote", FALSE, "Failed to submit vote to blockchain")
            ELSE IF userVoteStatus.hasVoted
               THEN Result("addVote", FALSE, "You have already voted!")
            ELSE Result("addVote", TRUE, "recorded successfully on the blockchain!") IN
    /\ Len(chain) >= 1
    /\ Len(chain) < MaxChainLen
    /\ lastResult' = result
    /\ IF result.success
          THEN /\ currentElection' = [currentElection EXCEPT !.blockchain = Append(chain, appended)]
               /\ written' = Append(written, built(written[Len(written)]))
               /\ userVoteStatus' = [hasVoted |-> TRUE, votedCandidate |-> candidate]
          ELSE UNCHANGED <<currentElection, written, userVoteStatus>>
    /\ UNCHANGED <<storage, voteCastLog, now, lastCall, dateNow, edits, tabs, localStorage, recorded>>

\* handleEndElection
handleEndElection ==
    /\ Len(currentElection.blockchain) >= 1
    /\ currentElection' = [currentElection EXCEPT !.election.status = "closed"]
    /\ lastResult' = Result("handleEndElection", TRUE, "Election ended successfully!")
    /\ UNCHANGED <<storage, voteCastLog, now, lastCall, userVoteStatus, dateNow, written, edits,
                 tabs, localStorage, recorded>>

\* the ways a stored block is edited: another hash string, the hash
\* recomputed over the block as it stands, the index of the block before it
\* together with the hash of the block so renumbered, another candidate in
\* its vote
EditKinds == {"fakeHash", "rehash", "sameIndex", "Alice", "Bob"}

Edited(b, kind) ==
    CASE kind = "fakeHash" -> [b EXCEPT !.hash = FakeHash]
      [] kind = "rehash" -> [b EXCEPT !.hash = calculateHash(b)]
      [] kind = "sameIndex" ->
            IF b.index = 0 THEN b
            ELSE LET renumbered == [b EXCEPT !.index = @ - 1] IN
                 [renumbered EXCEPT !.hash = calculateHash(renumbered)]
      [] OTHER -> IF Len(b.votes) = 0 THEN b ELSE [b EXCEPT !.votes[1].candidate = kind]

\* the elections key of localStorage is edited outside the application and
\* the reload effect puts the stored data into the elections state; the
\* ledger is stored, and loaded, for local elections only
storageReload(i, kind) ==
    /\ edits < MaxEdits
    /\ currentElection.contractAddress = ""
    /\ i \in 1..Len(currentElection.blockchain)
    /\ Edited(currentElection.blockchain[i], kind) # currentElection.blockchain[i]
    /\ edits' = edits + 1
    /\ currentElection' = [currentElection EXCEPT !.blockchain[i] = Edited(@, kind)]
    /\ lastResult' = Result("storageReload", TRUE, "")
    /\ UNCHANGED <<storage, voteCastLog, now, lastCall, userVoteStatus, dateNow, written,
                 tabs, localStorage, recorded>>

NextUI ==
    \/ Tick
    \/ \E voterId \in UIVoterIds, candidate \in UICandidateInputs,
          backendConnected \in BOOLEAN, apiOk \in BOOLEAN :
          addVote(voterId, candidate, backendConnected, apiOk)
    \/ handleEndElection
    \/ \E i \in 1..MaxChainLen, kind \in EditKinds : storageReload(i, kind)

SpecUI == InitUI /\ [][NextUI]_vars

(* ------------------- the application in two tabs ----------------------- *)

\* the open tabs of one browser; they share localStorage and with it the
\* session id
TabIds == {1, 2}
TabCandidateInputs == {"Alice", "Bob"}

\* no addVote call is running in the tab
NoPending ==
    [stage |-> 0,
     currentElection |-> [election |-> [status |-> "", endTime |-> 0, candidates |-> <<>>],
                          blockchain |-> <<>>, contractAddress |-> ""],
     candidate |-> "",
     newBlock |-> Block(0, 0, <<>>, <<>>, <<>>, 0, "")]

\* a local election created at Date.now() = 1 and saved; both tabs have
\* loaded it from localStorage
InitTabs ==
    LET created == [election |-> [status |-> "active", endTime |-> UIEndTime, candidates |-> UICandidates],
                    blockchain |-> <<createGenesisBlock(1, "")>>,
                    contractAddress |-> ""] IN
    /\ owner = ZeroAddress
    /\ maxVoters = 0
    /\ now = 0
    /\ electionStartTime = 0
    /\ electionEndTime = 0
    /\ candidates = <<>>
    /\ hasVoted = [a \in Addrs |-> FALSE]
    /\ nonces = [a \in Addrs |-> 0]
    /\ voterCount = 0
    /\ electionEnded = FALSE
    /\ voteCastLog = <<>>
    /\ lastCall = NoCall
    /\ currentElection = [election |-> [status |-> "", endTime |-> 0, candidates |-> <<>>],
                          blockchain |-> <<>>, contractAddress |-> ""]
    /\ userVoteStatus = [hasVoted |-> FALSE, votedCandidate |-> ""]
    /\ written = <<>>
    /\ edits = 0
    /\ dateNow = 1
    /\ lastResult = Result("handleCreateElection", TRUE, "")
    /\ tabs = [t \in TabIds |->
                 [currentElection |-> created,
                  userVoteStatus |-> [hasVoted |-> FALSE, votedCandidate |-> ""],
                  isLocalUpdateRef |-> FALSE,
                  storageEvent |-> FALSE,
                  pending |-> NoPending]]
    /\ localStorage = [elections |-> created, voteStatus |-> FALSE]
    /\ recorded = 0

\* what no action of a tab changes
TabFrame == UNCHANGED <<storage, voteCastLog, now, lastCall, currentElection, userVoteStatus,
                        written, edits, dateNow>>

\* the effect with dependency currentElection: the vote status stored for
\* this session, if any, replaces the tab's
storedVoteStatus(status) ==
    IF localStorage.voteStatus THEN [status EXCEPT !.hasVoted = TRUE] ELSE status

\* window "storage" events: a setItem that changes the elections key is
\* announced to every other tab
storageEventsAfter(t, stored, o) ==
    IF o # t /\ stored # localStorage.elections THEN TRUE ELSE tabs[o].storageEvent

\* the call of addVote(voterId, candidate) in tab t up to its first
\* requestAnimationFrame: the pre-checks and the vote status check of the
\* local path, on the currentElection of the tab's last render
addVoteCall(t, candidate) ==
    LET e == tabs[t].currentElection
        failure ==
            IF e.election.status = "closed" \/ dateNow > e.election.endTime
               THEN "This election has ended. No more votes can be cast."
            ELSE IF ~includes(e.election.candidates, candidate)
               THEN "Invalid candidate selected!"
            ELSE IF tabs[t].userVoteStatus.hasVoted
               THEN "You have already voted!"
            ELSE "" IN
    /\ tabs[t].pending.stage = 0
    /\ IF failure # ""
          THEN /\ lastResult' = Result("addVote", FALSE, failure)
               /\ UNCHANGED tabs
          ELSE /\ tabs' = [tabs EXCEPT ![t].pending =
                              [stage |-> 1, currentElection |-> e, candidate |-> candidate,
                               newBlock |-> NoPending.newBlock]]
               /\ UNCHANGED lastResult
    /\ UNCHANGED <<localStorage, recorded>>
    /\ TabFrame

\* variant of the first frame: the new block takes the index of lastBlock
addVoteFrame1_sameIndex(t) ==
    LET p == tabs[t].pending
        chain == p.currentElection.blockchain
        lastBlock == chain[Len(chain)]
        newVote == [voterId |-> "ANONYMOUS", candidate |-> p.candidate, timestamp |-> dateNow] IN
    /\ p.stage = 1
    /\ tabs' = [tabs EXCEPT ![t].pending.stage = 2,
                            ![t].pending.newBlock =
                                Block(lastBlock.index, dateNow, <<newVote>>, lastBlock.hash, <<>>, 0, "")]
    /\ UNCHANGED <<localStorage, recorded, lastResult>>
    /\ TabFrame

\* first frame: newVote and newBlock on top of the captured ledger
addVoteFrame1(t) ==
    LET p == tabs[t].pending
        chain == p.currentElection.blockchain
        lastBlock == chain[Len(chain)]
        newVote == [voterId |-> "ANONYMOUS", candidate |-> p.candidate, timestamp |-> dateNow] IN
    /\ p.stage = 1
    /\ tabs' = [tabs EXCEPT ![t].pending.stage = 2,
                            ![t].pending.newBlock =
                                Block(lastBlock.index + 1, dateNow, <<newVote>>, lastBlock.hash, <<>>, 0, "")]
    /\ UNCHANGED <<localStorage, recorded, lastResult>>
    /\ TabFrame

\* second frame: mineBlock(newBlock)
addVoteFrame2(t) ==
    /\ tabs[t].pending.stage = 2
    /\ tabs' = [tabs EXCEPT ![t].pending.stage = 3,
                            ![t].pending.newBlock = mineBlock(@)]
    /\ UNCHANGED <<localStorage, recorded, lastResult>>
    /\ TabFrame

\* third frame: the captured election with the mined block appended is put
\* into the elections state, the save effect stores it, and the vote status
\* is set and stored
addVoteFrame3(t) ==
    LET p == tabs[t].pending
        updatedElection == [p.currentElection EXCEPT !.blockchain = Append(@, p.newBlock)] IN
    /\ p.stage = 3
    /\ tabs' = [o \in TabIds |->
                  IF o = t
                     THEN [tabs[t] EXCEPT !.currentElection = updatedElection,
                                          !.isLocalUpdateRef = TRUE,
                                          !.userVoteStatus = [hasVoted |-> TRUE, votedCandidate |-> p.candidate],
                                          !.pending.stage = 4]
                     ELSE [tabs[o] EXCEPT !.storageEvent = storageEventsAfter(t, updatedElection, o)]]
    /\ localStorage' = [elections |-> updatedElection, voteStatus |-> TRUE]
    /\ UNCHANGED <<recorded, lastResult>>
    /\ TabFrame

\* 100 ms after the third frame the promise resolves with success
addVoteResolve(t) ==
    /\ tabs[t].pending.stage = 4
    /\ tabs' = [tabs EXCEPT ![t].pending = NoPending]
    /\ lastResult' = Result("addVote", TRUE, "recorded successfully on the blockchain!")
    /\ recorded' = recorded + 1
    /\ UNCHANGED localStorage
    /\ TabFrame

\* handleEndElection in tab t, with the save effect that follows it
tabEndElection(t) ==
    LET updatedElection == [tabs[t].currentElection EXCEPT !.election.status = "closed"] IN
    /\ tabs' = [o \in TabIds |->
                  IF o = t
                     THEN [tabs[t] EXCEPT !.currentElection = updatedElection,
                                          !.isLocalUpdateRef = TRUE,
                                          !.userVoteStatus = storedVoteStatus(@)]
                     ELSE [tabs[o] EXCEPT !.storageEvent = storageEventsAfter(t, updatedElection, o)]]
    /\ localStorage' = [localStorage EXCEPT !.elections = updatedElection]
    /\ lastResult' = Result("handleEndElection", TRUE, "Election ended successfully!")
    /\ UNCHANGED recorded
    /\ TabFrame

\* setTimeout(() => { isLocalUpdateRef.current = false }, 200)
localUpdateTimeout(t) ==
    /\ tabs[t].isLocalUpdateRef
    /\ tabs' = [tabs EXCEPT ![t].isLocalUpdateRef = FALSE]
    /\ UNCHANGED <<localStorage, recorded, lastResult>>
    /\ TabFrame

\* handleStorageChange in tab t: syncKey is incremented and the reload
\* effect runs once for it; the save effect then stores what was loaded
handleStorageChange(t) ==
    /\ tabs[t].storageEvent
    /\ tabs' = [tabs EXCEPT ![t].storageEvent = FALSE,
                            ![t].currentElection =
                                IF tabs[t].isLocalUpdateRef THEN @ ELSE localStorage.elections,
                            ![t].userVoteStatus =
                                IF tabs[t].isLocalUpdateRef THEN @ ELSE storedVoteStatus(@)]
    /\ UNCHANGED <<localStorage, recorded, lastResult>>
    /\ TabFrame

NextTabs ==
    \E t \in TabIds :
        \/ \E candidate \in TabCandidateInputs : addVoteCall(t, candidate)
        \/ addVoteFrame1(t)
        \/ addVoteFrame2(t)
        \/ addVoteFrame3(t)
        \/ addVoteResolve(t)
        \/ tabEndElection(t)
        \/ localUpdateTimeout(t)
        \/ handleStorageChange(t)

SpecTabs == InitTabs /\ [][NextTabs]_vars

\* one user ends the election in tab 1 while another votes in tab 2
NextSync ==
    \/ tabEndElection(1)
    \/ addVoteCall(2, "Alice")
    \/ addVoteFrame1(2)
    \/ addVoteFrame2(2)
    \/ addVoteFrame3(2)
    \/ addVoteResolve(2)
    \/ \E t \in TabIds : localUpdateTimeout(t)
    \/ \E t \in TabIds : handleStorageChange(t)

\* a queued timeout and a queued storage event do run, in a hidden tab as
\* well; requestAnimationFrame callbacks are held back while a tab is
\* hidden and calls made by the user may never come, so neither carries a
\* fairness condition
SpecSync ==
    /\ InitTabs
    /\ [][NextSync]_vars
    /\ WF_vars(addVoteResolve(2))
    /\ \A t \in TabIds : WF_vars(localUpdateTimeout(t))
    /\ \A t \in TabIds : WF_vars(handleStorageChange(t))

(* ------------------- elections with given vote counts ------------------ *)

\* every candidate's voteCount is drawn from 0..MaxTallyCount
MaxTallyCount == 2
\* maxVoters of the test deployment
TestMaxVoters == 100

TallyNameLists == { <<"Alice", "Bob">>, <<"Alice", "Bob", "Charlie">> }

\* the k-th voter to cast a vote
TallyVoterNames == <<"t1", "t2", "t3", "t4", "t5", "t6", "t7", "t8", "t9", "t10", "t11", "t12">>
TallyVoter(k) == TallyVoterNames[k]
TallyVoters == { TallyVoter(k) : k \in 1..(3 * MaxTallyCount) }

RECURSIVE SumUpTo(_, _)
SumUpTo(counts, n) == IF n = 0 THEN 0 ELSE counts[n] + SumUpTo(counts, n - 1)

\* the candidate (0-based) the k-th vote goes to when the votes are cast
\* candidate by candidate
TallyChoice(counts, k) ==
    (CHOOSE i \in DOMAIN counts : SumUpTo(counts, i - 1) < k /\ k <= SumUpTo(counts, i)) - 1

\* the election after counts[i] accepted vote() calls for each candidate i,
\* all in the deployment block, each by a different voter
InitTally ==
    \E names \in TallyNameLists :
    \E counts \in [1..Len(names) -> 0..MaxTallyCount] :
        LET total == SumUpTo(counts, Len(names)) IN
        /\ owner = Deployer
        /\ maxVoters = TestMaxVoters
        /\ now = 0
        /\ electionStartTime = 0
        /\ electionEndTime = 0 + 24 * HOUR
        /\ candidates = [i \in 1..Len(names) |-> [name |-> names[i], voteCount |-> counts[i]]]
        /\ hasVoted = [a \in TallyVoters \cup Addrs |-> a \in { TallyVoter(k) : k \in 1..total }]
        /\ nonces = [a \in TallyVoters \cup Addrs |-> 0]
        /\ voterCount = total
        /\ electionEnded = FALSE
        /\ voteCastLog = [k \in 1..total |->
                            [voter |-> TallyVoter(k), candidateIndex |-> TallyChoice(counts, k), timestamp |-> 0]]
        /\ lastCall = NoCall
        /\ NoApp

\* time passes and the owner (or someone else) calls endElection
NextTally ==
    \/ NextBlock
    \/ \E sender \in Addrs : endElection(sender)

SpecTally == InitTally /\ [][NextTally]_vars

(* ======================================================================= *)
(*                               properties                                *)
(* ======================================================================= *)

VoteFns == {"vote", "voteByName", "voteBySignature"}

\* the error of the design's taxonomy that a revert string stands for
ErrorKind(result) ==
    CASE result \in {"Election has ended", "Election not started", "Election time expired"} -> "ElectionNotActive"
      [] result \in {"Already voted", "Voter already voted"} -> "AlreadyVoted"
      [] result \in {"Candidate out of range", "Invalid candidate", "Candidate not found"} -> "InvalidCandidate"
      [] result = "Max voters reached" -> "CapacityReached"
      [] result = "Invalid nonce" -> "NonceMismatch"
      [] result = "Invalid sig length" -> "BadSignatureLength"
      [] result \in {"Invalid v", "Invalid signature"} -> "InvalidRecoveredSigner"
      [] result = "Invalid signer" -> "ZeroAddressRecovered"
      [] result = "Only owner" -> "NotAdmin"
      [] result = "Already ended" -> "AlreadyEnded"
      [] result = "Election still running" -> "StillRunning"
      [] result = "Election ongoing" -> "ElectionStillActive"
      [] result = "At least two candidates" -> "TooFewCandidates"
      [] result = "maxVoters > 0" -> "InvalidMaxVoters"
      [] result = "Duplicate candidate name" -> "DuplicateName"
      [] result = "Duplicate candidate" -> "DuplicateCandidateNameError"
      [] OTHER -> result

AuthErrors == {"NonceMismatch", "BadSignatureLength", "InvalidRecoveredSigner", "ZeroAddressRecovered"}

\* the election is over: ended by flag or by time
ElectionOver == electionEnded \/ now > electionEndTime

\* the call recorded in c names a registered candidate
NamesCandidate(c) ==
    IF c.fn = "voteByName" THEN \E i \in 1..Len(candidates) : candidates[i].name = c.name
    ELSE c.candidateIndex < Len(candidates)

RECURSIVE SumVoteCount(_)
SumVoteCount(cs) ==
    IF cs = <<>> THEN 0 ELSE cs[1].voteCount + SumVoteCount(Tail(cs))

\* In a step that changes the state and leaves lastCall'.fn a function name,
\* lastCall' describes the call made in that step, executed on the unprimed state.

(* ------------------------------- C1 ------------------------------------ *)
\* C1: no identity's hasVoted is set more than once (it never goes back to
\* false and no identity has two VoteCast records), and while the election is
\* active a vote attempt that resolves to a candidate index, made for an
\* identity that has already voted, fails with AlreadyVoted.
C1_Uniqueness ==
    [][ /\ \A a \in Addrs : hasVoted[a] => hasVoted'[a]
        /\ \A a \in Addrs :
              Cardinality({ k \in 1..Len(voteCastLog') : voteCastLog'[k].voter = a }) <= 1
        /\ ( /\ lastCall'.fn \in {"vote", "voteBySignature"}
             /\ ~ElectionOver
             /\ hasVoted[lastCall'.voter] )
           => ErrorKind(lastCall'.result) = "AlreadyVoted" ]_vars

(* ------------------------------- C2 ------------------------------------ *)
\* C2: in every reachable state the candidates' voteCounts add up to
\* voterCount, which is the number of VoteCast events emitted and the number
\* of identities with hasVoted = true.
C2_Conservation ==
    /\ SumVoteCount(candidates) = voterCount
    /\ voterCount = Len(voteCastLog)
    /\ voterCount = Cardinality({ a \in Addrs : hasVoted[a] })

\* two votes were accepted, the last one just now
C2_Witness ==
    /\ voterCount = 2
    /\ lastCall.fn \in VoteFns
    /\ lastCall.result = "ok"

(* ------------------------------- C3 ------------------------------------ *)
\* C3: voterCount <= maxVoters in every reachable state, whatever the order
\* of vote, voteByName and voteBySignature calls and whoever makes them.
C3_Capacity ==
    voterCount <= maxVoters

\* the election is full and one more identity, not yet counted, has just
\* tried to vote for a valid candidate
C3_Witness ==
    /\ voterCount = maxVoters
    /\ lastCall.fn \in VoteFns
    /\ ~hasVoted[lastCall.voter]
    /\ NamesCandidate(lastCall)
    /\ lastCall.result = "Max voters reached"

(* ------------------------------- C4 ------------------------------------ *)
\* C4 as stated: once voterCount = maxVoters, a vote attempt (made while the
\* election is active, for an identity that has not voted) fails with
\* CapacityReached whether or not the candidate is valid, and voterCount stays
\* at maxVoters.
C4_AsStated ==
    [][ ( /\ lastCall'.fn \in VoteFns
          /\ voterCount = maxVoters
          /\ ~ElectionOver
          /\ ~hasVoted[lastCall'.voter] )
        => /\ ErrorKind(lastCall'.result) = "CapacityReached"
           /\ voterCount' = maxVoters ]_vars

\* C4 amended: once voterCount = maxVoters it stays there and every vote
\* attempt fails; for an active election and an identity that has not voted
\* the error is CapacityReached when the request names a registered candidate
\* and InvalidCandidate when it does not (the candidate check comes first).
C4_CapacityReached ==
    [][ /\ voterCount = maxVoters => voterCount' = maxVoters
        /\ ( lastCall'.fn \in VoteFns /\ voterCount = maxVoters )
           => /\ lastCall'.result # "ok"
              /\ ( ~ElectionOver /\ ~hasVoted[lastCall'.voter] )
                 => ErrorKind(lastCall'.result) =
                      IF NamesCandidate(lastCall') THEN "CapacityReached" ELSE "InvalidCandidate" ]_vars

\* the election is full and active, and an identity that has not voted has
\* just been turned away with an out-of-range index
C4_Witness ==
    /\ voterCount = maxVoters
    /\ ~ElectionOver
    /\ lastCall.fn \in VoteFns
    /\ ~hasVoted[lastCall.voter]
    /\ ~NamesCandidate(lastCall)
    /\ ErrorKind(lastCall.result) = "InvalidCandidate"

(* ------------------------------- C5 ------------------------------------ *)
\* the first violated check, in the order ElectionNotActive, AlreadyVoted,
\* InvalidCandidate, CapacityReached ("none" when all four pass)
FirstViolatedCheck(c) ==
    IF ElectionOver THEN "ElectionNotActive"
    ELSE IF hasVoted[c.voter] THEN "AlreadyVoted"
    ELSE IF ~NamesCandidate(c) THEN "InvalidCandidate"
    ELSE IF voterCount >= maxVoters THEN "CapacityReached"
    ELSE "none"

\* C5: whichever entry point is used, a request that violates one or more of
\* the four eligibility checks is rejected with the first violated one in the
\* order ElectionNotActive, AlreadyVoted, InvalidCandidate, CapacityReached
\* (a signed request may instead be rejected by the authorization step).
C5_CheckOrder ==
    [][ ( lastCall'.fn \in VoteFns /\ FirstViolatedCheck(lastCall') # "none" )
        => \/ ErrorKind(lastCall'.result) = FirstViolatedCheck(lastCall')
           \/ /\ lastCall'.fn = "voteBySignature"
              /\ ErrorKind(lastCall'.result) \in AuthErrors ]_vars

(* ------------------------------- C6 ------------------------------------ *)
\* C6: a rejected vote call leaves hasVoted, voterCount, every voteCount (and
\* the nonces) as they were and emits no VoteCast; an accepted call sets
\* hasVoted of the voter only (it was false), adds 1 to voterCount and to the
\* chosen candidate's voteCount only, and emits one VoteCast.
C6_Atomic ==
    [][ lastCall'.fn \in VoteFns
        => IF lastCall'.result # "ok"
           THEN UNCHANGED <<hasVoted, voterCount, candidates, voteCastLog, nonces>>
           ELSE /\ ~hasVoted[lastCall'.voter]
                /\ hasVoted' = [hasVoted EXCEPT ![lastCall'.voter] = TRUE]
                /\ voterCount' = voterCount + 1
                /\ lastCall'.candidateIndex < Len(candidates)
                /\ candidates' = [candidates EXCEPT ![lastCall'.candidateIndex + 1].voteCount = @ + 1]
                /\ Len(voteCastLog') = Len(voteCastLog) + 1
                /\ SubSeq(voteCastLog', 1, Len(voteCastLog)) = voteCastLog ]_vars

\* after one accepted vote, a vote call by another identity has just been
\* rejected for its out-of-range index
C6_Witness ==
    /\ voterCount = 1
    /\ lastCall.fn \in VoteFns
    /\ ~hasVoted[lastCall.voter]
    /\ lastCall.result \in {"Candidate out of range", "Invalid candidate"}

(* ------------------------------- C7 ------------------------------------ *)
\* C7: an election that is over (flag set, or now past electionEndTime) stays
\* over, and every vote attempt made then fails with ElectionNotActive,
\* whatever the voter, the candidate or the capacity left.
C7_NoVoteAfterEnd ==
    [][ /\ ElectionOver => ElectionOver'
        /\ ( lastCall'.fn \in VoteFns /\ ElectionOver )
           => ErrorKind(lastCall'.result) = "ElectionNotActive" ]_vars

\* past the scheduled end, with the flag never set, an otherwise acceptable
\* vote (fresh identity, registered candidate, capacity left) was turned away
C7_Witness ==
    /\ now > electionEndTime
    /\ ~electionEnded
    /\ lastCall.fn \in VoteFns
    /\ ~hasVoted[lastCall.voter]
    /\ NamesCandidate(lastCall)
    /\ voterCount < maxVoters
    /\ ErrorKind(lastCall.result) = "ElectionNotActive"

C9_EndElection ==
    [][ /\ electionEnded => electionEnded'
        /\ lastCall'.fn = "endElection"
           => /\ lastCall'.sender # owner => ErrorKind(lastCall'.result) = "NotAdmin"
              /\ ( lastCall'.sender = owner /\ now >= electionEndTime /\ ~electionEnded )
                 => ( lastCall'.result = "ok" /\ electionEnded' )
              /\ ( lastCall'.sender = owner /\ electionEnded )
                 => ErrorKind(lastCall'.result) = "AlreadyEnded"
              /\ lastCall'.result # "ok" => UNCHANGED <<storage, voteCastLog, now>> ]_vars

\* the owner ended the election and has just called endElection again
C9_Witness ==
    /\ electionEnded
    /\ lastCall.fn = "endElection"
    /\ lastCall.sender = owner
    /\ lastCall.result = "Already ended"

(* ------------------------------- C10 ----------------------------------- *)
\* the election is as deployed with a 24-hour duration and no time has passed
FreshlyDeployed ==
    /\ now = electionStartTime
    /\ electionEndTime = electionStartTime + 24 * HOUR
    /\ ~electionEnded

C11_WinnerAvailability ==
    /\ ( ~electionEnded /\ now <= electionEndTime ) => ErrorKind(getWinner.err) = "ElectionStillActive"
    /\ ( electionEnded \/ ~(now <= electionEndTime) ) => getWinner.err = "ok"

\* past the scheduled end, endElection never called, a vote recorded:
\* getWinner answers
C11_Witness ==
    /\ now > electionEndTime
    /\ ~electionEnded
    /\ voterCount > 0
    /\ getWinner.err = "ok"
    /\ getWinner.winnerVotes > 0

(* ------------------------------- C12 ----------------------------------- *)
VoteCounts == [i \in 1..Len(candidates) |-> candidates[i].voteCount]
MaxVoteCount == CHOOSE m \in {VoteCounts[i] : i \in 1..Len(candidates)} :
                    \A i \in 1..Len(candidates) : VoteCounts[i] <= m
MaxHolders == { i \in 1..Len(candidates) : VoteCounts[i] = MaxVoteCount }

\* C12: when getWinner succeeds: if the largest voteCount m is 0 it returns
\* ("", 0, false); otherwise the name of the lowest-index candidate with
\* count m, the value m, and tie = true exactly when two or more candidates
\* have count m.  For an empty candidate array it returns ("", 0, false).
C12_WinnerAndTie ==
    /\ getWinnerReturn(<<>>) = [err |-> "ok", winnerName |-> "", winnerVotes |-> 0, tie |-> FALSE]
    /\ getWinner.err = "ok"
       => IF MaxVoteCount = 0
          THEN getWinner = [err |-> "ok", winnerName |-> "", winnerVotes |-> 0, tie |-> FALSE]
          ELSE /\ getWinner.winnerName =
                     candidates[CHOOSE i \in MaxHolders : \A j \in MaxHolders : i <= j].name
               /\ getWinner.winnerVotes = MaxVoteCount
               /\ getWinner.tie = (Cardinality(MaxHolders) >= 2)

\* the ended election with counts [2,2,1]: the first candidate wins a tie
C12_Witness ==
    /\ electionEnded
    /\ VoteCounts = <<2, 2, 1>>
    /\ getWinner = [err |-> "ok", winnerName |-> "Alice", winnerVotes |-> 2, tie |-> TRUE]

(* ------------------------------- C13 ----------------------------------- *)
Max0(x) == IF x > 0 THEN x ELSE 0

\* C13: in every reachable state getElectionStats returns totalVoters =
\* voterCount, maxAllowedVoters = maxVoters, remainingVoters =
\* max(0, maxVoters - voterCount), isActive = (not ended and startTime <= now
\* <= endTime), timeRemaining = max(0, endTime - now); totalVoters +
\* remainingVoters = maxAllowedVoters; and isActive holds exactly when the
\* lifecycle check of the vote functions passes.
C13_Stats ==
    /\ getElectionStats.totalVoters = voterCount
    /\ getElectionStats.maxAllowedVoters = maxVoters
    /\ getElectionStats.remainingVoters = Max0(maxVoters - voterCount)
    /\ getElectionStats.isActive =
          (~electionEnded /\ electionStartTime <= now /\ now <= electionEndTime)
    /\ getElectionStats.timeRemaining = Max0(electionEndTime - now)
    /\ getElectionStats.totalVoters + getElectionStats.remainingVoters
          = getElectionStats.maxAllowedVoters
    /\ getElectionStats.isActive = (onlyDuringElection = "ok")

\* past the scheduled end with the flag not set and the election full: the
\* stats report an inactive election, no time and no seats left
C13_Witness ==
    /\ now > electionEndTime
    /\ ~electionEnded
    /\ voterCount = maxVoters
    /\ getElectionStats.isActive = FALSE
    /\ getElectionStats.remainingVoters = 0
    /\ getElectionStats.timeRemaining = 0

(* ------------------------------- C14 ----------------------------------- *)
\* the signature the voter made over exactly this request
GenuineSig(candidateIndex, voter, nonce) ==
    [signer |-> voter,
     digest |-> <<"Ethereum Signed Message: 32", <<ThisContract, voter, candidateIndex, nonce>>>>,
     recid |-> 27, v |-> 27, len |-> 65]

\* the request (candidateIndex, voter, nonce) was accepted earlier: the nonce
\* it carried is consumed and the log holds the voter's vote for the candidate
AcceptedEarlier(candidateIndex, voter, nonce) ==
    /\ nonces[voter] = nonce + 1
    /\ \E k \in DOMAIN voteCastLog :
          voteCastLog[k].voter = voter /\ voteCastLog[k].candidateIndex = candidateIndex

\* C14: while the election is active, a signed request that was accepted
\* earlier and is submitted again unchanged (same voter, candidate, nonce and
\* signature) fails with NonceMismatch.
C14_ReplayNonceMismatch ==
    [][ \A candidateIndex \in IndexInputs, voter \in Addrs, nonce \in NonceInputs :
          ( /\ AcceptedEarlier(candidateIndex, voter, nonce)
            /\ ~ElectionOver
            /\ voteBySignature(Deployer, candidateIndex, voter, nonce,
                               GenuineSig(candidateIndex, voter, nonce)) )
          => ErrorKind(lastCall'.result) = "NonceMismatch" ]_vars

C16_SignatureBinding ==
    [][ lastCall'.fn = "voteBySignature" =>
        LET candidateIndex == lastCall'.candidateIndex
            voter == lastCall'.voter IN
        /\ lastCall'.result # "ok" => UNCHANGED <<storage, voteCastLog>>
        /\ lastCall'.result = "ok" =>
             /\ hasVoted'[voter] /\ ~hasVoted[voter]
             /\ candidates'[candidateIndex + 1].voteCount
                   = candidates[candidateIndex + 1].voteCount + 1
             \* every request that produces this accepted step is genuine
             /\ \A nonce \in NonceInputs :
                \A sig \in SigVariants(candidateIndex, voter, nonce) :
                   voteBySignature(Deployer, candidateIndex, voter, nonce, sig)
                   => /\ sig.signer = voter
                      /\ sig.digest = GenuineSig(candidateIndex, voter, nonce).digest
                      /\ nonce = nonces[voter] ]_vars

\* a relayer other than the voter got the voter's signed vote accepted
C16_Witness ==
    /\ lastCall.fn = "voteBySignature"
    /\ lastCall.result = "ok"
    /\ lastCall.sender # lastCall.voter
    /\ nonces[lastCall.voter] = 1
    /\ hasVoted[lastCall.voter]

(* ------------------------------- C17 ----------------------------------- *)
HasEqualNames(names) ==
    \E i, j \in 1..Len(names) : i # j /\ names[i] = names[j]

\* C17: a deployment with a positive duration fails with TooFewCandidates
\* when fewer than 2 names are given, otherwise with InvalidMaxVoters when
\* maxVoters is 0, otherwise with DuplicateName when two of the names are
\* equal (names that differ in case are different), and a failed deployment
\* leaves no state; otherwise it succeeds, the candidates are the input names
\* in input order with voteCount 0, voterCount is 0, electionEnded is false
\* and the owner is the deployer.
C17_Deployment ==
    [][ \A sender \in Addrs, names \in DeployNameLists, mv \in DeployMaxVoters :
          constructor(sender, names, mv, 24)
          => /\ Len(names) < 2 => ErrorKind(lastCall'.result) = "TooFewCandidates"
             /\ (Len(names) >= 2 /\ mv = 0) => ErrorKind(lastCall'.result) = "InvalidMaxVoters"
             /\ (Len(names) >= 2 /\ mv > 0 /\ HasEqualNames(names))
                   => ErrorKind(lastCall'.result) = "DuplicateName"
             /\ lastCall'.result # "ok" => UNCHANGED <<storage, voteCastLog>>
             /\ (Len(names) >= 2 /\ mv > 0 /\ ~HasEqualNames(names))
                   => /\ lastCall'.result = "ok"
                      /\ Len(candidates') = Len(names)
                      /\ \A i \in 1..Len(names) :
                            candidates'[i] = [name |-> names[i], voteCount |-> 0]
                      /\ voterCount' = 0
                      /\ electionEnded' = FALSE
                      /\ owner' = sender ]_vars

\* an account other than the usual deployer has deployed an election whose
\* names differ in case only
C17_Witness ==
    /\ lastCall.fn = "constructor"
    /\ lastCall.result = "ok"
    /\ owner = lastCall.sender
    /\ owner = "voter1"
    /\ Len(candidates) = 2
    /\ candidates[1].name = "Alice"
    /\ candidates[2].name = "alice"
    /\ voterCount = 0
    /\ ~electionEnded

(* ------------------------------- C18 ----------------------------------- *)
DistinctNames ==
    \A i, j \in 1..Len(candidates) : i # j => candidates[i].name # candidates[j].name

\* C18: candidate names are pairwise distinct in every reachable state; an
\* addCandidate call succeeds only while now < electionStartTime and only
\* for a name no existing candidate has, and then appends the candidate with
\* voteCount 0 leaving the existing ones unchanged; a failed call leaves the
\* candidate list unchanged.
C18_DistinctNames ==
    [][ /\ DistinctNames /\ DistinctNames'
        /\ lastCall'.fn = "addCandidate" =>
              IF lastCall'.result = "ok"
                 THEN /\ now < electionStartTime
                      /\ \A i \in 1..Len(candidates) : candidates[i].name # lastCall'.name
                      /\ candidates' = Append(candidates, [name |-> lastCall'.name, voteCount |-> 0])
                 ELSE candidates' = candidates ]_vars

\* the owner asked for a new name after the start and was turned down
C18_Witness ==
    /\ lastCall.fn = "addCandidate"
    /\ lastCall.sender = owner
    /\ \A i \in 1..Len(candidates) : candidates[i].name # lastCall.name
    /\ lastCall.result = "Can only add candidates before start"
    /\ Len(candidates) = 3
    /\ DistinctNames

(* ------------------------------- C19 ----------------------------------- *)
\* C19: no record of the VoteCast log carries the identity of the voter:
\* every record is the one that any other address casting the same vote at
\* the same time would have produced.
C19_NoIdentityInLog ==
    \A k \in DOMAIN voteCastLog :
        \A a \in Addrs : voteCastLog[k] = [voteCastLog[k] EXCEPT !.voter = a]

(* ------------------------------- C20 ----------------------------------- *)
\* some stored block hash or stored vote choice differs from what the
\* handlers wrote
Altered ==
    \E i \in 1..Len(written) :
        \/ currentElection.blockchain[i].hash # written[i].hash
        \/ \E k \in 1..Len(written[i].votes) :
              currentElection.blockchain[i].votes[k].candidate # written[i].votes[k].candidate

\* C20: isChainValid is true for the chain as the votes built it, and false
\* whenever a stored block hash or a stored vote choice of any block, the
\* first included, has been altered outside the application.
C20_ChainIntegrity ==
    /\ currentElection.blockchain = written => isChainValid
    /\ Altered => ~isChainValid

(* ------------------------------- C21 ----------------------------------- *)
\* the outcome a vote attempt on a corrupted ledger is said to get: a failure
\* that is none of the outcomes addVote has for other reasons
CorruptedLedgerOutcome(r) ==
    /\ r.fn = "addVote"
    /\ ~r.success
    /\ r.message \notin { "This election has ended. No more votes can be cast.",
                          "Invalid candidate selected!",
                          "Failed to submit vote to blockchain",
                          "You have already voted!" }

\* C21: a vote attempt made while isChainValid is false is rejected with the
\* corrupted-ledger outcome and appends nothing to the ledger.
C21_CorruptedLedgerRejects ==
    [][ (~isChainValid /\ lastResult' # lastResult /\ lastResult'.fn = "addVote")
          => /\ CorruptedLedgerOutcome(lastResult')
             /\ currentElection'.blockchain = currentElection.blockchain ]_vars

(* ------------------------------- C22 ----------------------------------- *)
\* the indices at which a name is registered
RegisteredAt(n) == { i \in 0..(Len(candidates) - 1) : candidates[i + 1].name = n }

\* what vote(i) sent by s answers in the current state
VoteOutcome(s, i) ==
    IF onlyDuringElection # "ok" THEN onlyDuringElection ELSE _castVoteRequires(i, s)

\* C22: a voteByName(n) call by s has, for the index i at which n is
\* registered, the result and the state effect of vote(i) by s in the same
\* state; for a name that is not registered it fails and changes no state.
C22_VoteByNameIsVote ==
    [][ lastCall'.fn = "voteByName" =>
          LET n == lastCall'.name
              s == lastCall'.sender IN
          /\ UNCHANGED <<owner, nonces, maxVoters, electionStartTime, electionEndTime, electionEnded, now>>
          /\ IF RegisteredAt(n) # {}
                THEN \A i \in RegisteredAt(n) :
                        /\ lastCall'.result = VoteOutcome(s, i)
                        /\ IF VoteOutcome(s, i) = "ok"
                              THEN _castVoteWrites(i, s)
                              ELSE UNCHANGED <<hasVoted, voterCount, candidates, voteCastLog>>
                ELSE /\ lastCall'.result # "ok"
                     /\ UNCHANGED <<hasVoted, voterCount, candidates, voteCastLog>> ]_vars

\* a vote by name for the second candidate has been accepted
C22_Witness ==
    /\ lastCall.fn = "voteByName"
    /\ lastCall.result = "ok"
    /\ lastCall.name = "Bob"
    /\ candidates[2].voteCount >= 1
    /\ hasVoted[lastCall.sender]

(* ------------------------------- C23 ----------------------------------- *)
\* some block's index is not the index of the block before it plus one
IndexGap ==
    \E i \in 2..Len(currentElection.blockchain) :
        currentElection.blockchain[i].index # currentElection.blockchain[i - 1].index + 1

\* C23: a chain in which some block's index is not its predecessor's index
\* plus one is reported invalid by isChainValid.
C23_SequentialIndexChecked == IndexGap => ~isChainValid

(* ------------------------------- C24 ----------------------------------- *)
\* a chain that is well formed
WellFormedChain(chain) ==
    /\ Len(chain) >= 1
    /\ chain[1].index = 0
    /\ chain[1].votes = <<>>
    /\ chain[1].previousHash = <<48>>
    /\ \A i \in 2..Len(chain) :
          /\ chain[i].index = chain[i - 1].index + 1
          /\ chain[i].previousHash = chain[i - 1].hash
          /\ chain[i].hash = calculateHash(chain[i])
          /\ Len(chain[i].votes) = 1

\* C24: in every reachable state of a local election the ledger, in each
\* tab's state and in localStorage, is a well-formed chain: a genesis block
\* with index 0, no votes and previousHash "0", then blocks with consecutive
\* indices, each linked to the stored hash of the block before it, carrying
\* the hash of its own contents and exactly one vote.
C24_WellFormedLedger ==
    /\ WellFormedChain(localStorage.elections.blockchain)
    /\ \A t \in TabIds : WellFormedChain(tabs[t].currentElection.blockchain)

\* a vote block has been appended and stored, and the other tab has loaded it
C24_Witness ==
    /\ Len(localStorage.elections.blockchain) = 2
    /\ \A t \in TabIds : tabs[t].currentElection.blockchain = localStorage.elections.blockchain
    /\ tabs[2].pending.stage = 0
    /\ tabs[1].userVoteStatus.hasVoted
    /\ ~tabs[2].userVoteStatus.votedCandidate \in TabCandidateInputs

(* ------------------------------- C25 ----------------------------------- *)
\* C25: once a tab's election has status "closed", it has status "closed"
\* after every step, and no addVote call writes a block into that tab's
\* ledger: no call is admitted and no call already running completes its
\* third frame.
C25_EndIsFinal ==
    [][ \A t \in TabIds :
          tabs[t].currentElection.election.status = "closed" =>
              /\ tabs'[t].currentElection.election.status = "closed"
              /\ tabs'[t].pending.stage \in {1, 4} => tabs'[t].pending.stage = tabs[t].pending.stage ]_vars

(* ------------------------------- C26 ----------------------------------- *)
\* C26: whenever a write of the elections key by another tab has been
\* announced to a tab, that tab's elections state eventually is the stored
\* data.
C26_CrossTabSync ==
    \A t \in TabIds :
        tabs[t].storageEvent ~> (tabs[t].currentElection = localStorage.elections)

(* ------------------------------- C30 ----------------------------------- *)
\* the blocks of a chain that carry a vote
VoteBlocks(chain) == { i \in 1..Len(chain) : Len(chain[i].votes) > 0 }

\* C30: the stored ledger of the election holds a vote block for every
\* addVote call that has returned success.
C30_NoVoteLost == Cardinality(VoteBlocks(localStorage.elections.blockchain)) >= recorded

(* ------------------------------- C27 ----------------------------------- *)
\* C27: once getWinner succeeds, no vote is accepted in that state or any
\* later one, and getWinner returns the same (name, votes, tie) after every
\* step.
C27_ResultsFinal ==
    [][ LET result == getWinner IN
        result.err = "ok" =>
            /\ ~(lastCall'.fn \in VoteFns /\ lastCall'.result = "ok")
            /\ candidates' = candidates
            /\ getWinner' = result ]_vars

\* votes were cast, the results are readable, and a vote has just been refused
C27_Witness ==
    /\ getWinner.err = "ok"
    /\ getWinner.winnerVotes >= 1
    /\ lastCall.fn \in VoteFns
    /\ lastCall.result # "ok"
    /\ ~hasVoted[lastCall.voter]

(* ------------------------------- C28 ----------------------------------- *)
\* the names of the candidates, in order
CandidateNames(cs) == [i \in 1..Len(cs) |-> cs[i].name]

\* C28: in no state of a deployed contract is the time before
\* electionStartTime; no addCandidate call succeeds; and the names of the
\* candidates, and with them their number, are after every step what they
\* were at deployment.
C28_CandidatesFixed ==
    [][ owner' # ZeroAddress =>
          /\ ~(now' < electionStartTime')
          /\ ~(lastCall'.fn = "addCandidate" /\ lastCall'.result = "ok")
          /\ owner # ZeroAddress => CandidateNames(candidates') = CandidateNames(candidates) ]_vars

\* time has passed since deployment and the owner's addCandidate with a
\* fresh name was refused
C28_Witness ==
    /\ owner # ZeroAddress
    /\ now > electionStartTime
    /\ lastCall.fn = "addCandidate"
    /\ lastCall.sender = owner
    /\ lastCall.name = "Dave"
    /\ lastCall.result # "ok"
    /\ \A i \in 1..Len(candidates) : candidates[i].name # "Dave"

(* ------------------------------- C29 ----------------------------------- *)
\* the outcomes of voteBySignature that are decided before the nonce is read
BeforeNonceCheck ==
    { "Election has ended", "Election not started", "Election time expired",
      "Invalid candidate", "Voter already voted" }

\* C29: every voter's nonce is 0 or 1 and a nonce of 1 belongs to a voter
\* who has voted; a nonce changes only by one, in an accepted voteBySignature
\* for that voter; and a signed request for a voter whose nonce is 1 is
\* turned down before the nonce check.
C29_NonceAtMostOne ==
    [][ /\ \A v \in Addrs :
              /\ nonces'[v] \in {0, 1}
              /\ nonces'[v] = 1 => hasVoted'[v]
              /\ nonces'[v] # nonces[v] =>
                    /\ nonces'[v] = nonces[v] + 1
                    /\ lastCall'.fn = "voteBySignature"
                    /\ lastCall'.voter = v
                    /\ lastCall'.result = "ok"
        /\ (lastCall'.fn = "voteBySignature" /\ nonces[lastCall'.voter] = 1) =>
              lastCall'.result \in BeforeNonceCheck ]_vars

\* a second signed request for a voter whose nonce was consumed, while the
\* election is open
C29_Witness ==
    /\ lastCall.fn = "voteBySignature"
    /\ nonces[lastCall.voter] = 1
    /\ hasVoted[lastCall.voter]
    /\ lastCall.result = "Voter already voted"
    /\ \E v \in Addrs : nonces[v] = 0

====
